---------------------------- MODULE Spec2Model ----------------------------
(***************************************************************************)
(* A model of the build configuration and dependency resolution code of    *)
(* ino: Build.scan_dependencies (src/ino/commands/build.py) and the        *)
(* Environment, ArduinoData and BoardModels classes                        *)
(* (src/ino/environment.py).                                               *)
(***************************************************************************)
EXTENDS Integers, Sequences, FiniteSets, TLC

(***************************************************************************)
(* Bounds of the model.                                                    *)
(***************************************************************************)
\* longest string passed to replace_vars
MaxLen == 5
\* depth of nested replace_vars calls at which the interpreter gives up
RecursionLimit == 4
\* number of lines read from one description file
MaxLines == 4
\* number of candidate library directories (lib_dirs)
NumLibs == 3
\* largest exit status the dependency-listing subprocess returns
MaxExit == 1
\* number of lines in one board description file of a distribution
MaxFileLines == 2
\* number of board_models() calls made on one Environment
MaxCalls == 2

(***************************************************************************)
(* State of Build.scan_dependencies.                                       *)
(***************************************************************************)
VARIABLES
    pc,            \* position in scan_dependencies
    used_libs,     \* the local list used_libs
    scanned_libs,  \* the local set scanned_libs
    pending,       \* what is left of the set the for loop iterates over
    observed,      \* dir -> the set _scan_dependencies returned for it
    make_calls,    \* the subprocess calls made: <<[dir, ret], ...>>
    abort,         \* the exit code the Abort exception carries, 0 if none
    e_deps,        \* self.e['deps']
    e_used_libs,   \* self.e['used_libs'], Unset until it is written
    e_cflags       \* the library part of self.e['cflags']

depVars == <<pc, used_libs, scanned_libs, pending, observed, make_calls,
             abort, e_deps, e_used_libs, e_cflags>>

(***************************************************************************)
(* State of BoardModels.parse (and of ArduinoData.parse under it).         *)
(***************************************************************************)
VARIABLES
    ppc,           \* "reading" | "failed" | "parsed" | "expand_failed"
    file,          \* the lines of the description file read so far
    boards,        \* the BoardModels mapping itself (self)
    board_order,   \* the key order of the OrderedDict self
    cpus,          \* self.cpus
    perr,          \* the exception raised, "none" if none
    base_boards    \* self as the lines left it, before the variant pass

parseVars == <<ppc, file, boards, board_order, cpus, perr, base_boards>>

(***************************************************************************)
(* A call of Environment.replace_vars.                                     *)
(***************************************************************************)
VARIABLES
    rv_pc,         \* "call" | "returned" | "raised"
    rv_value,      \* the argument value
    rv_kwargs,     \* the keyword arguments: the variables mapping
    rv_out,        \* the string returned
    rv_err         \* the exception raised, "none" if none

rvVars == <<rv_pc, rv_value, rv_kwargs, rv_out, rv_err>>

(***************************************************************************)
(* The Environment of a running process, and the files it leaves.          *)
(***************************************************************************)
VARIABLES
    epc,           \* "running" | "aborted" | "exited"
    args,          \* the parsed command line: board_model, arduino_dist
    env,           \* the items of the Environment dict
    disk,          \* file path -> the items pickled into the file
    out_dir_made,  \* os.path.isdir(output_dir)
    dumped_under,  \* file path -> the selection of the process that wrote it
    loaded_under   \* the selection under which the items load restored were dumped

envVars == <<epc, args, env, disk, out_dir_made, dumped_under, loaded_under>>

(***************************************************************************)
(* Environment.board_models on one Environment: the description files of   *)
(* the distribution and the BoardModels object kept under 'board_models'.  *)
(***************************************************************************)
VARIABLES
    bm_pc,         \* "idle" between calls, "reading" inside a call
    bm_idx,        \* the file being parsed, an index of bm_files
    bm_line,       \* the next line of that file
    bm_files,      \* the files board_models parses: <<[arch, lines], ...>>
    bm_stored,     \* 'board_models' in self
    bm_self,       \* self['board_models'], the mapping
    bm_order,      \* its key order
    bm_cpus,       \* self['board_models'].cpus
    bm_calls       \* the calls made: <<[err, ret], ...>>

bmVars == <<bm_pc, bm_idx, bm_line, bm_files, bm_stored, bm_self, bm_order,
            bm_cpus, bm_calls>>

vars == <<depVars, parseVars, rvVars, envVars, bmVars>>

\* what the steps of one component leave alone
otherThanDep == <<parseVars, rvVars, envVars, bmVars>>
otherThanParse == <<depVars, rvVars, envVars, bmVars>>
otherThanRv == <<depVars, parseVars, envVars, bmVars>>
otherThanEnv == <<depVars, parseVars, rvVars, bmVars>>
otherThanBm == <<depVars, parseVars, rvVars, envVars>>

(***************************************************************************)
(* Helpers on sequences and sets.                                          *)
(***************************************************************************)
Range(s) == {s[i] : i \in DOMAIN s}

\* every order in which the elements of a set can be listed
Orders(S) == {s \in [1..Cardinality(S) -> S] : Range(s) = S}

\* (the element is read but stays in the list)
Pop_KeepsElement(s, i) == s
\* list.pop(i): the list without its element at position i
Pop(s, i) == [j \in 1..(Len(s) - 1) |-> IF j < i THEN s[j] ELSE s[j + 1]]

\* position of x in the duplicate-free list s, 0 when absent
IndexOf(s, x) == IF x \in Range(s) THEN CHOOSE i \in DOMAIN s : s[i] = x ELSE 0

(***************************************************************************)
(* Directories.  The project source directory is not a library candidate.  *)
(***************************************************************************)
SrcDir == 0
Libs == 1..NumLibs
Dirs == {SrcDir} \cup Libs
ExitCodes == 0..MaxExit
Unset == <<"unset">>

(***************************************************************************)
(* Build._scan_dependencies: the set of candidate libraries whose regex    *)
(* matches a line of the listing, the scanned directory itself excluded.   *)
(* `matched` is the set of candidates whose regex matches.                 *)
(***************************************************************************)
ScanResult(dir, matched) == {lib \in matched : lib # dir}

(***************************************************************************)
(* The loop of lines 285-292: ulib runs over a copy of used_libs, i is the *)
(* index kept into the list being changed.                                 *)
(***************************************************************************)
\* a list back to front
Reverse(s) == [j \in 1..Len(s) |-> s[Len(s) + 1 - j]]

\* (each moved entry is put in front of the entries moved before it)
MoveLoop_Unstable(snap, k, used, i, dep) ==
    LET Stays(x) == x \notin dep
        Moves(x) == x \in dep
    IN  [used |-> SelectSeq(used, Stays) \o Reverse(SelectSeq(used, Moves)),
         dep |-> dep \ Range(used)]
RECURSIVE MoveLoop(_, _, _, _, _)
MoveLoop(snap, k, used, i, dep) ==
    IF k > Len(snap)
    THEN [used |-> used, dep |-> dep]
    ELSE IF snap[k] \in dep
         THEN MoveLoop(snap, k + 1, Append(Pop(used, i), used[i]), i,
                       dep \ {snap[k]})
         ELSE MoveLoop(snap, k + 1, used, i + 1, dep)

\* (new dependencies put in front of the list instead of at its tail)
Reordered_Prepend(used, dep_libs) ==
    LET r == MoveLoop(used, 1, used, 1, dep_libs)
    IN  {tail \o r.used : tail \in Orders(r.dep)}
\* lines 285-295: the lists used_libs can become after processing dep_libs
Reordered(used, dep_libs) ==
    LET r == MoveLoop(used, 1, used, 1, dep_libs)
    IN  {r.used \o tail : tail \in Orders(r.dep)}

\* line 296
MarkScanned(scanned, lib) == scanned \cup {lib}

\* line 281: the test of the while loop
\* (the set compared with the list itself, which Python never finds equal)
LoopTest_ListCompare(scanned, used) == Len(used) >= 0
LoopTest(scanned, used) == scanned # Range(used)

\* (the exit status is not looked at)
MakeFails_Ignored(ret) == FALSE
\* Build.make, lines 229-231: a non-zero exit status raises Abort
MakeFails(ret) == ret # 0

(***************************************************************************)
(* Actions of scan_dependencies.                                           *)
(***************************************************************************)
DepInit ==
    /\ pc = "start"
    /\ used_libs = <<>>
    /\ scanned_libs = {}
    /\ pending = {}
    /\ observed = [d \in Dirs |-> {}]
    /\ make_calls = <<>>
    /\ abort = 0
    /\ e_deps = <<>>
    /\ e_used_libs = Unset
    /\ e_cflags = <<>>

\* line 276 (with line 262): scan the project sources
ScanSources ==
    /\ pc = "start"
    /\ \E ret \in ExitCodes, matched \in SUBSET Libs :
         /\ make_calls' = Append(make_calls, [dir |-> SrcDir, ret |-> ret])
         /\ IF MakeFails(ret)
            THEN /\ pc' = "aborted"
                 /\ abort' = ret
                 /\ UNCHANGED <<used_libs, observed, e_deps>>
            ELSE /\ pc' = "while"
                 /\ abort' = 0
                 /\ e_deps' = Append(e_deps, SrcDir)
                 /\ observed' = [observed EXCEPT ![SrcDir] = ScanResult(SrcDir, matched)]
                 /\ used_libs' \in Orders(ScanResult(SrcDir, matched))
    /\ UNCHANGED <<scanned_libs, pending, e_used_libs, e_cflags>>
    /\ UNCHANGED otherThanDep

\* line 281 true, line 282: a round of the while loop begins
BeginRound ==
    /\ pc = "while"
    /\ LoopTest(scanned_libs, used_libs)
    /\ pending' = Range(used_libs) \ scanned_libs
    /\ pc' = IF pending' = {} THEN "while" ELSE "for"
    /\ UNCHANGED <<used_libs, scanned_libs, observed, make_calls, abort,
                   e_deps, e_used_libs, e_cflags>>
    /\ UNCHANGED otherThanDep

\* lines 283-296: one iteration of the for loop
ScanLib ==
    /\ pc = "for"
    /\ \E lib \in pending, ret \in ExitCodes, matched \in SUBSET Libs :
         /\ make_calls' = Append(make_calls, [dir |-> lib, ret |-> ret])
         /\ IF MakeFails(ret)
            THEN /\ pc' = "aborted"
                 /\ abort' = ret
                 /\ UNCHANGED <<used_libs, scanned_libs, pending, observed, e_deps>>
            ELSE /\ abort' = 0
                 /\ e_deps' = Append(e_deps, lib)
                 /\ observed' = [observed EXCEPT ![lib] = ScanResult(lib, matched)]
                 /\ used_libs' \in Reordered(used_libs, ScanResult(lib, matched))
                 /\ scanned_libs' = MarkScanned(scanned_libs, lib)
                 /\ pending' = pending \ {lib}
                 /\ pc' = IF pending' = {} THEN "while" ELSE "for"
    /\ UNCHANGED <<e_used_libs, e_cflags>>
    /\ UNCHANGED otherThanDep

\* line 281 false, lines 298-299
Finish ==
    /\ pc = "while"
    /\ ~LoopTest(scanned_libs, used_libs)
    /\ e_used_libs' = used_libs
    /\ e_cflags' = e_cflags \o used_libs
    /\ pc' = "done"
    /\ UNCHANGED <<used_libs, scanned_libs, pending, observed, make_calls,
                   abort, e_deps>>
    /\ UNCHANGED otherThanDep


(***************************************************************************)
(* Python values of the configuration trees: a str or a dict.              *)
(***************************************************************************)
Str(x) == [s |-> x]
Dict(f) == [d |-> f]
IsStr(v) == "s" \in DOMAIN v
IsDict(v) == "d" \in DOMAIN v
EmptyDict == Dict(<<>>)

\* the characters of a string
CharAt(s, i) == SubSeq(s, i, i)

\* str.__contains__: sub occurs in s
Contains(s, sub) ==
    \E i \in 1..(Len(s) + 1) : \E j \in (i - 1)..Len(s) : SubSeq(s, i, j) = sub

\* `key in v` for a dict (a key of it) and for a str (a substring of it)
In(key, v) == IF IsStr(v) THEN Contains(v.s, key) ELSE key \in DOMAIN v.d

\* the value reached from v through the keys of path
RECURSIVE At(_, _)
At(v, path) == IF path = <<>> THEN v ELSE At(v.d[Head(path)], Tail(path))

\* whether every key of path is there to follow
RECURSIVE Has(_, _)
Has(v, path) ==
    \/ path = <<>>
    \/ /\ IsDict(v)
       /\ Head(path) \in DOMAIN v.d
       /\ Has(v.d[Head(path)], Tail(path))

\* v after `At(v, path) = x` is assigned (the dicts above it exist)
RECURSIVE Put(_, _, _)
Put(v, path, x) ==
    IF path = <<>> THEN x
    ELSE LET k == Head(path)
             below == IF k \in DOMAIN v.d THEN v.d[k] ELSE EmptyDict
         IN  Dict((k :> Put(below, Tail(path), x)) @@ v.d)

\* v after `del v[k]`
Del(v, k) == Dict([x \in DOMAIN v.d \ {k} |-> v.d[x]])

\* OrderedDict key order: kept keys stay in place, new keys go last
RECURSIVE NewKeys(_)
NewKeys(S) == IF S = {} THEN <<>>
              ELSE LET k == CHOOSE k \in S : TRUE IN <<k>> \o NewKeys(S \ {k})
KeyOrder(order, v) ==
    SelectSeq(order, LAMBDA k : k \in DOMAIN v.d)
        \o NewKeys(DOMAIN v.d \ Range(order))

(***************************************************************************)
(* Text of a line: str.strip, str.split and str.startswith.                *)
(***************************************************************************)
IsSpace(c) == c = " "

RECURSIVE LStrip(_)
LStrip(s) == IF Len(s) > 0 /\ IsSpace(CharAt(s, 1))
             THEN LStrip(SubSeq(s, 2, Len(s))) ELSE s
RECURSIVE RStrip(_)
RStrip(s) == IF Len(s) > 0 /\ IsSpace(CharAt(s, Len(s)))
             THEN RStrip(SubSeq(s, 1, Len(s) - 1)) ELSE s
Strip(s) == RStrip(LStrip(s))

StartsWith(s, c) == Len(s) > 0 /\ CharAt(s, 1) = c

\* index of the first c in s, 0 when there is none
Find(s, c) == IF \E i \in 1..Len(s) : CharAt(s, i) = c
              THEN CHOOSE i \in 1..Len(s) :
                      CharAt(s, i) = c /\ \A j \in 1..(i - 1) : CharAt(s, j) # c
              ELSE 0

\* s.split(c)
RECURSIVE Split(_, _)
Split(s, c) ==
    LET i == Find(s, c)
    IN  IF i = 0 THEN <<s>>
        ELSE <<SubSeq(s, 1, i - 1)>> \o Split(SubSeq(s, i + 1, Len(s)), c)

\* s.split('=', 1)
SplitOnce(s, c) ==
    LET i == Find(s, c)
    IN  IF i = 0 THEN <<s>>
        ELSE <<SubSeq(s, 1, i - 1), SubSeq(s, i + 1, Len(s))>>

(***************************************************************************)
(* ArduinoData.parse_multikey, lines 322-335.  root is the object the      *)
(* walk starts in (self, or self.cpus for a menu line), start the path of  *)
(* subdict in it.  The result is the new root and the exception raised.    *)
(***************************************************************************)
RECURSIVE Walk(_, _, _, _)
Walk(root, cur, last, keys) ==
    IF keys = <<>>
    THEN [root |-> root, cur |-> cur, last |-> last, err |-> "none"]
    ELSE LET key == Head(keys)
             subdict == At(root, cur)
         IN  IF IsStr(subdict)
             THEN \* `subdict[key] = {}` or `subdict[key]` on a str
                  [root |-> root, cur |-> cur, last |-> last,
                   err |-> IF ~In(key, subdict) THEN "TypeError" ELSE "TypeError"]
             ELSE Walk(IF ~In(key, subdict)
                       THEN Put(root, Append(cur, key), EmptyDict) ELSE root,
                       Append(cur, key), cur, Tail(keys))

\* line 333, `last[name] = ...`: where the promoted node is stored
PromotePath(last, name) == Append(last, name)

parse_multikey(root, start, multikey, val) ==
    LET w == Walk(root, start, <<>>, SubSeq(multikey, 1, Len(multikey) - 1))
        final == multikey[Len(multikey)]
    IN  IF w.err # "none" THEN [root |-> root, err |-> w.err]
        ELSE IF IsStr(At(w.root, w.cur))
        THEN LET name == At(w.root, w.cur).s
                 at == PromotePath(w.last, name)
                 r1 == Put(w.root, at, Dict("name" :> Str(name)))
             IN  [root |-> Put(r1, Append(at, final), Str(val)), err |-> "none"]
        ELSE [root |-> Put(w.root, Append(w.cur, final), Str(val)), err |-> "none"]

(***************************************************************************)
(* BoardModels.parse_key and parse_menu, lines 367-387.  The result is the *)
(* new self, the new self.cpus and the exception raised.                   *)
(***************************************************************************)
parse_menu(self, cp, menukey, val) ==
    IF Len(menukey) = 0 THEN [self |-> self, cpus |-> cp, err |-> "IndexError"]
    ELSE IF menukey[1] # "cpu" \/ Len(menukey) = 1
    THEN [self |-> self, cpus |-> cp, err |-> "none"]
    ELSE IF Len(menukey) = 2 THEN [self |-> self, cpus |-> cp, err |-> "IndexError"]
    ELSE LET model == menukey[2]
             cpu == menukey[3]
         IN  IF Len(menukey) = 3
             THEN [self |-> self,
                   cpus |-> Put(IF model \notin DOMAIN cp.d
                                THEN Put(cp, <<model>>, EmptyDict) ELSE cp,
                                <<model, cpu>>, Dict("name" :> Str(val))),
                   err |-> "none"]
             ELSE IF ~Has(cp, <<model, cpu>>)
             THEN [self |-> self, cpus |-> cp, err |-> "KeyError"]
             ELSE LET sub == At(cp, <<model, cpu>>)
                      \* `subdict or self`: an empty dict is false
                      r == IF sub = EmptyDict
                           THEN parse_multikey(self, <<>>, SubSeq(menukey, 4, Len(menukey)), val)
                           ELSE parse_multikey(cp, <<model, cpu>>,
                                               SubSeq(menukey, 4, Len(menukey)), val)
                  IN  IF sub = EmptyDict
                      THEN [self |-> r.root, cpus |-> cp, err |-> r.err]
                      ELSE [self |-> self, cpus |-> r.root, err |-> r.err]

parse_key(self, cp, multikey, val) ==
    IF multikey[1] = "menu"
    THEN parse_menu(self, cp, SubSeq(multikey, 2, Len(multikey)), val)
    ELSE LET r == parse_multikey(self, <<>>, multikey, val)
         IN  [self |-> r.root, cpus |-> cp, err |-> r.err]

\* ArduinoData.parse, lines 311-317, for one line of the file
parse_line(self, cp, raw) ==
    LET line == Strip(raw)
    IN  IF line = "" \/ StartsWith(line, "#")
        THEN [self |-> self, cpus |-> cp, err |-> "none"]
        ELSE LET kv == SplitOnce(line, "=")
             IN  IF Len(kv) # 2
                 THEN [self |-> self, cpus |-> cp, err |-> "ValueError"]
                 ELSE parse_key(self, cp, Split(kv[1], "."), kv[2])

(***************************************************************************)
(* BoardModels.parse, lines 352-365: the variant pass and the arch pass.   *)
(* Results carry the new self, its key order and the exception raised.     *)
(***************************************************************************)
Outcome(self, order, err) == [self |-> self, order |-> KeyOrder(order, self), err |-> err]

\* lines 354-359 for one (model, cpu)
ExpandVariant(self, order, cp, model, cpu) ==
    LET key == model \o "_" \o cpu
        d0 == At(cp, <<model, cpu>>)
        s1 == Put(self, <<key>>, d0)
    IN  IF model \notin DOMAIN s1.d THEN Outcome(s1, order, "KeyError")
        ELSE LET base == s1.d[model]
             IN  IF IsStr(base) THEN Outcome(s1, order, "TypeError")
                 ELSE IF "name" \notin DOMAIN base.d THEN Outcome(s1, order, "KeyError")
                 ELSE IF "name" \notin DOMAIN d0.d THEN Outcome(s1, order, "KeyError")
                 ELSE IF ~IsStr(base.d["name"]) \/ ~IsStr(d0.d["name"])
                 THEN Outcome(s1, order, "TypeError")
                 ELSE LET d1 == Put(d0, <<"name">>,
                                    Str(base.d["name"].s \o " w/ " \o d0.d["name"].s))
                          u == Del(base, "name")
                          \* d.update(u): the keys of u replace those of d
                          d2 == Dict(u.d @@ d1.d)
                      IN  Outcome(Put(s1, <<key>>, d2), order, "none")

\* line 353: the variants of one model, in the order cpulist
RECURSIVE ExpandCpus(_, _, _, _, _)
ExpandCpus(self, order, cp, model, cpulist) ==
    IF cpulist = <<>> THEN Outcome(self, order, "none")
    ELSE LET r == ExpandVariant(self, order, cp, model, Head(cpulist))
         IN  IF r.err # "none" THEN r
             ELSE ExpandCpus(r.self, r.order, cp, model, Tail(cpulist))

\* lines 352-361: models in the order modellist, cpus in the order cpuorder
RECURSIVE ExpandModels(_, _, _, _, _)
ExpandModels(self, order, cp, modellist, cpuorder) ==
    IF modellist = <<>> THEN Outcome(self, order, "none")
    ELSE LET model == Head(modellist)
             r == ExpandCpus(self, order, cp, model,
                             SelectSeq(cpuorder, LAMBDA c : c \in DOMAIN cp.d[model].d))
         IN  IF r.err # "none" THEN r
             ELSE ExpandModels(Del(r.self, model),
                               KeyOrder(r.order, Del(r.self, model)),
                               cp, Tail(modellist), cpuorder)

\* lines 363-365
RECURSIVE ArchPass(_, _, _, _)
ArchPass(self, order, keys, arch) ==
    IF keys = <<>> THEN Outcome(self, order, "none")
    ELSE LET model == Head(keys)
         IN  IF In("arch", self.d[model])
             THEN ArchPass(self, order, Tail(keys), arch)
             ELSE IF IsStr(self.d[model])
             THEN Outcome(self, order, "TypeError")
             ELSE ArchPass(Put(self, <<model, "arch">>, Str(arch)), order,
                           Tail(keys), arch)

\* the cpu names recorded in self.cpus
CpuNames(cp) == UNION {DOMAIN cp.d[m].d : m \in DOMAIN cp.d}

\* lines 352-365, for one iteration order of the plain dicts of self.cpus
PostPass(self, order, cp, modellist, cpuorder, arch) ==
    LET r == ExpandModels(self, order, cp, modellist, cpuorder)
    IN  IF r.err # "none" THEN r
        ELSE ArchPass(r.self, r.order, r.order, arch)

(***************************************************************************)
(* The description file: each line read is one of these.                   *)
(***************************************************************************)
Lines ==
    { "a=a", "a=X", "a.b=Y", "a.b.c=Z", "a.name=N",
      "menu.cpu.a.v=V", "menu.cpu.a.v.b=W", "# c", "a" }

\* Environment.board_models, line 190
DefaultArch == "avr"

ParseIdle ==
    /\ ppc = "reading"
    /\ file = <<>>
    /\ boards = EmptyDict
    /\ board_order = <<>>
    /\ cpus = EmptyDict
    /\ perr = "none"
    /\ base_boards = EmptyDict

\* lines 310-317: the next line of the file
ReadLine ==
    /\ ppc = "reading"
    /\ Len(file) < MaxLines
    /\ \E raw \in Lines :
         LET r == parse_line(boards, cpus, raw)
         IN  /\ file' = Append(file, raw)
             /\ boards' = r.self
             /\ board_order' = KeyOrder(board_order, r.self)
             /\ cpus' = r.cpus
             /\ perr' = r.err
             /\ ppc' = IF r.err = "none" THEN "reading" ELSE "failed"
    /\ UNCHANGED base_boards
    /\ UNCHANGED otherThanParse

\* lines 352-365: the file is exhausted
EndOfFile ==
    /\ ppc = "reading"
    /\ \E modellist \in Orders(DOMAIN cpus.d), cpuorder \in Orders(CpuNames(cpus)) :
         LET r == PostPass(boards, board_order, cpus, modellist, cpuorder, DefaultArch)
         IN  /\ boards' = r.self
             /\ board_order' = r.order
             /\ perr' = r.err
             /\ ppc' = IF r.err = "none" THEN "parsed" ELSE "expand_failed"
    /\ base_boards' = boards
    /\ UNCHANGED <<file, cpus>>
    /\ UNCHANGED otherThanParse



(***************************************************************************)
(* Environment.replace_vars, lines 216-226.                                *)
(***************************************************************************)
IsBrace(c) == c = "{" \/ c = "}"

\* the regex \{([^{}]+)\} tried at position i of s: the position of the
\* closing brace of the match, 0 when there is no match at i
MatchEnd(s, i) ==
    IF CharAt(s, i) # "{" THEN 0
    ELSE IF \E j \in (i + 1)..Len(s) : IsBrace(CharAt(s, j))
         THEN LET j == CHOOSE j \in (i + 1)..Len(s) :
                          /\ IsBrace(CharAt(s, j))
                          /\ \A k \in (i + 1)..(j - 1) : ~IsBrace(CharAt(s, k))
              IN  IF CharAt(s, j) = "}" /\ j > i + 1 THEN j ELSE 0
         ELSE 0

\* '.'.join(parts)
RECURSIVE Join(_, _)
Join(parts, c) ==
    IF Len(parts) = 0 THEN ""
    ELSE IF Len(parts) = 1 THEN parts[1]
    ELSE parts[1] \o c \o Join(Tail(parts), c)

\* lines 219-223: [found, d, err] for the walk of multikey from d
RECURSIVE Lookup(_, _)
Lookup(d, multikey) ==
    IF multikey = <<>> THEN [found |-> TRUE, d |-> d, err |-> "none"]
    ELSE LET key == Head(multikey)
         IN  IF ~In(key, d) THEN [found |-> FALSE, d |-> d, err |-> "none"]
             ELSE IF IsStr(d)
             THEN \* `d[key]` on a str
                  [found |-> FALSE, d |-> d, err |-> "TypeError"]
             ELSE Lookup(d.d[key], Tail(multikey))

Returned(out) == [out |-> out, err |-> "none"]
Raised(err) == [out |-> "", err |-> err]

RECURSIVE replace_vars(_, _, _)
RECURSIVE Resolved(_, _, _)
RECURSIVE Sub(_, _, _, _)

\* line 224 without the recursive call
Resolved_NoRecursion(d, kwargs, depth) ==
    IF IsStr(d) THEN Returned(d.s) ELSE Raised("TypeError")
\* line 224: the value found is expanded in turn
Resolved(d, kwargs, depth) == replace_vars(d, kwargs, depth + 1)

\* replace_var, lines 217-224, for the text the group matched
replace_var(group, kwargs, depth) ==
    LET multikey == Split(group, ".")
        r == Lookup(kwargs, multikey)
    IN  IF r.err # "none" THEN Raised(r.err)
        ELSE IF ~r.found THEN Returned("{" \o Join(multikey, ".") \o "}")
        ELSE Resolved(r.d, kwargs, depth)

\* re.sub from position i of s on
Sub(s, i, kwargs, depth) ==
    IF i > Len(s) THEN Returned("")
    ELSE LET j == MatchEnd(s, i)
         IN  IF j = 0
             THEN LET rest == Sub(s, i + 1, kwargs, depth)
                  IN  IF rest.err # "none" THEN rest
                      ELSE Returned(CharAt(s, i) \o rest.out)
             ELSE LET here == replace_var(SubSeq(s, i + 1, j - 1), kwargs, depth)
                  IN  IF here.err # "none" THEN here
                      ELSE LET rest == Sub(s, j + 1, kwargs, depth)
                           IN  IF rest.err # "none" THEN rest
                               ELSE Returned(here.out \o rest.out)

\* line 226; a call nested deeper than the interpreter allows raises
replace_vars(value, kwargs, depth) ==
    IF depth > RecursionLimit THEN Raised("RuntimeError")
    ELSE IF ~IsStr(value) THEN Raised("TypeError")
    ELSE Sub(value.s, 1, kwargs, depth)

(***************************************************************************)
(* The calls of replace_vars considered.                                   *)
(***************************************************************************)
Alphabet == {"{", "}", ".", "a", "b"}

RECURSIVE StringsUpTo(_)
StringsUpTo(n) ==
    IF n = 0 THEN {""}
    ELSE LET P == StringsUpTo(n - 1)
         IN  P \cup {p \o c : p \in P, c \in Alphabet}

Mappings ==
    { EmptyDict,
      Dict("a" :> Str("{b}") @@ "b" :> Str("Z")),
      Dict("a" :> Str("b}") @@ "b" :> Str("Z")),
      Dict("a" :> Str("b")),
      Dict("a" :> Str("Z")),
      Dict("a" :> Dict("b" :> Str("{b}")) @@ "b" :> Str("Z")),
      Dict("a" :> Str("{a}")),
      Dict("a" :> Str("{b}") @@ "b" :> Str("{a}")) }

RvIdle ==
    /\ rv_pc = "call"
    /\ rv_value = ""
    /\ rv_kwargs = EmptyDict
    /\ rv_out = ""
    /\ rv_err = "none"

\* the call returns
ReplaceVarsReturns ==
    /\ rv_pc = "call"
    /\ LET r == replace_vars(Str(rv_value), rv_kwargs, 0)
       IN  /\ r.err = "none"
           /\ rv_out' = r.out
           /\ rv_err' = "none"
           /\ rv_pc' = "returned"
    /\ UNCHANGED <<rv_value, rv_kwargs>>
    /\ UNCHANGED otherThanRv

\* the call raises
ReplaceVarsRaises ==
    /\ rv_pc = "call"
    /\ LET r == replace_vars(Str(rv_value), rv_kwargs, 0)
       IN  /\ r.err # "none"
           /\ rv_out' = ""
           /\ rv_err' = r.err
           /\ rv_pc' = "raised"
    /\ UNCHANGED <<rv_value, rv_kwargs>>
    /\ UNCHANGED otherThanRv

(***************************************************************************)
(* Environment: dump, load, dump_filepath, _find, board_models and         *)
(* process_args.  The values kept in the dict are modelled as strings.     *)
(***************************************************************************)
\* class attributes, lines 56 and 70
OutputDir == ".build"
DefaultBoardModel == "uno"
\* the entry of arduino_dist_dir_guesses (lines 62-65) that exists
DistGuess == "/usr/share/arduino"

\* the Arduino distributions a user can name with -d, and None
NoArg == ""
DistArgs == {NoArg, "/opt/arduino-1.0", "/opt/arduino-1.5"}
BoardArgs == {NoArg, "uno", "due"}

\* os.path.join
PathJoin(a, b) == a \o "/" \o b

\* hashlib.md5(arduino_dist).hexdigest()[:8], line 287
Md5Prefix(dist) ==
    CASE dist = "/opt/arduino-1.0" -> "a4137e72"
      [] dist = "/opt/arduino-1.5" -> "6a2a8917"

\* the content of lib/version.txt in a distribution
VersionIn(path) ==
    IF path = PathJoin("/opt/arduino-1.5", "lib/version.txt") THEN "1.5" ELSE "1.0"

\* Environment.dump_filepath, lines 89-91
dump_filepath(e) == PathJoin(OutputDir, "environment.pickle")

\* dict.items() and dict.update(items)
Items(e) == {<<k, e[k]>> : k \in DOMAIN e}
Update(e, items) ==
    [k \in DOMAIN e \cup {it[1] : it \in items} |->
        IF \E it \in items : it[1] = k
        THEN (CHOOSE it \in items : it[1] = k)[2]
        ELSE e[k]]

\* Environment._arduino_dist_places, lines 164-168: the place that exists
DistPlace(e) ==
    IF "arduino_dist_dir" \in DOMAIN e THEN e["arduino_dist_dir"] ELSE DistGuess

\* Environment._find, lines 112-130, for an item found in the first place
find_arduino_file(e, key, dirname, item) ==
    IF key \in DOMAIN e THEN e
    ELSE (key :> PathJoin(DistPlace(e), PathJoin(dirname, item))) @@ e

\* Environment.arduino_lib_version, lines 292-305
arduino_lib_version(e) ==
    LET e1 == find_arduino_file(e, "version.txt", "lib", "version.txt")
    IN  IF "arduino_lib_version" \in DOMAIN e1 THEN e1
        ELSE ("arduino_lib_version" :> VersionIn(e1["version.txt"])) @@ e1

\* Environment.use_arduino15_dirs, lines 170-172
use_arduino15_dirs(e) == e["arduino_lib_version"] = "1.5"

\* Environment.board_models, lines 174-192; the BoardModels object is
\* modelled by the files it was parsed from
board_models(e) ==
    IF "board_models" \in DOMAIN e THEN e
    ELSE LET e1 == arduino_lib_version(e)
         IN  IF use_arduino15_dirs(e1)
             THEN LET e2 == find_arduino_file(e1, "sam_boards.txt",
                                              "hardware/arduino/sam", "boards.txt")
                      e3 == find_arduino_file(e2, "avr_boards.txt",
                                              "hardware/arduino/avr", "boards.txt")
                  IN  ("board_models" :>
                          e3["sam_boards.txt"] \o ":" \o e3["avr_boards.txt"]) @@ e3
             ELSE LET e2 == find_arduino_file(e1, "boards.txt",
                                              "hardware/arduino", "boards.txt")
                  IN  ("board_models" :> e2["boards.txt"]) @@ e2

\* the keys of a BoardModels object: the sam boards file defines due
BoardKeys(models) == IF Contains(models, "sam") THEN {"uno", "due"} ELSE {"uno"}

\* Environment.process_args, lines 270-290: the new items, and whether
\* Abort is raised
process_args(e, a) ==
    LET e1 == IF a.arduino_dist # NoArg
              THEN ("arduino_dist_dir" :> a.arduino_dist) @@ e ELSE e
        e2 == IF a.board_model # NoArg THEN board_models(e1) ELSE e1
        name == IF a.board_model # NoArg THEN a.board_model ELSE DefaultBoardModel
        build_dirname == IF a.arduino_dist # NoArg
                         THEN name \o "-" \o Md5Prefix(a.arduino_dist) ELSE name
    IN  IF a.board_model # NoArg /\ a.board_model \notin BoardKeys(e2["board_models"])
        THEN [env |-> e2, abort |-> TRUE]
        ELSE [env |-> ("build_dir" :> PathJoin(OutputDir, build_dirname)) @@ e2,
              abort |-> FALSE]

\* Reads of the Environment.  A read gives a value or raises.
Value(v) == [val |-> v, err |-> "none"]
Raises(err) == [val |-> "", err |-> err]

\* None, and a method looked up on the instance
PyNone == "<None>"
BoundMethod(name) == "<bound method Environment." \o name \o ">"

\* the data attributes the class statement sets, lines 55-71 (the ones with
\* a fixed value)
ClassAttrs ==
    [output_dir |-> OutputDir, src_dir |-> "src", lib_dir |-> "lib",
     hex_filename |-> "firmware.hex", arduino_dist_dir |-> PyNone,
     default_board_model |-> DefaultBoardModel]

\* the properties (lines 89, 108, 292) and the methods of the class that
\* the keys of the model can meet
Properties == {"dump_filepath", "hex_path", "arduino_lib_version"}
Methods == {"dump", "load", "board_models", "platforms", "process_args"}

\* what a property computes
PropertyValue(e, name) ==
    CASE name = "dump_filepath" -> Value(dump_filepath(e))
      [] name = "arduino_lib_version" ->
            Value(arduino_lib_version(e)["arduino_lib_version"])
      [] name = "hex_path" ->
            IF "build_dir" \in DOMAIN e
            THEN Value(PathJoin(e["build_dir"], ClassAttrs["hex_filename"]))
            ELSE Raises("AttributeError")

\* Environment.__getattr__, lines 102-106: called when the ordinary lookup
\* finds nothing
getattr_hook(e, attr) ==
    IF attr \in DOMAIN e THEN Value(e[attr]) ELSE Raises("AttributeError")

\* e.name and getattr(e, name): the class is searched first, the hook of
\* lines 102-106 is the last resort
GetAttr(e, name) ==
    IF name \in Properties THEN PropertyValue(e, name)
    ELSE IF name \in DOMAIN ClassAttrs THEN Value(ClassAttrs[name])
    ELSE IF name \in Methods THEN Value(BoundMethod(name))
    ELSE getattr_hook(e, name)

\* Environment.__getitem__, lines 93-100
GetItem(e, key) ==
    IF key \in DOMAIN e THEN Value(e[key])
    ELSE IF GetAttr(e, key).err = "none" THEN GetAttr(e, key)
    ELSE Raises("KeyError")

\* the names a read is made with: the keys item assignment stores and the
\* names the class defines, and one that is neither
ReadNames ==
    DOMAIN ClassAttrs \cup Properties \cup Methods \cup
    {"build_dir", "version.txt", "boards.txt", "sam_boards.txt",
     "avr_boards.txt", "no_such_name"}

\* the (board, toolchain path) a command line selects
Selection(a) ==
    <<IF a.board_model # NoArg THEN a.board_model ELSE DefaultBoardModel,
      a.arduino_dist>>
NoSelection == <<>>

EnvIdle ==
    /\ epc = "exited"
    /\ args = [board_model |-> NoArg, arduino_dist |-> NoArg]
    /\ env = <<>>
    /\ disk = <<>>
    /\ out_dir_made = FALSE
    /\ dumped_under = <<>>
    /\ loaded_under = NoSelection

\* a new process: Environment() with a command line
NewProcess ==
    /\ epc \in {"exited", "aborted"}
    /\ \E b \in BoardArgs, d \in DistArgs :
         args' = [board_model |-> b, arduino_dist |-> d]
    /\ env' = <<>>
    /\ loaded_under' = NoSelection
    /\ epc' = "running"
    /\ UNCHANGED <<disk, out_dir_made, dumped_under>>
    /\ UNCHANGED otherThanEnv

\* Environment.load, lines 79-87; unpickling can fail on a damaged file
Load ==
    /\ epc = "running"
    /\ dump_filepath(env) \in DOMAIN disk
    /\ \E readable \in BOOLEAN :
         IF readable
         THEN /\ env' = Update(env, disk[dump_filepath(env)])
              /\ loaded_under' = IF disk[dump_filepath(env)] = {}
                                 THEN loaded_under
                                 ELSE dumped_under[dump_filepath(env)]
         ELSE UNCHANGED <<env, loaded_under>>
    /\ UNCHANGED <<epc, args, disk, out_dir_made, dumped_under>>
    /\ UNCHANGED otherThanEnv

\* Environment.process_args, lines 270-290
ProcessArgs ==
    /\ epc = "running"
    /\ LET r == process_args(env, args)
       IN  /\ env' = r.env
           /\ epc' = IF r.abort THEN "aborted" ELSE "running"
    /\ UNCHANGED <<args, disk, out_dir_made, dumped_under, loaded_under>>
    /\ UNCHANGED otherThanEnv

\* Environment.dump, lines 73-77
Dump ==
    /\ epc = "running"
    /\ out_dir_made
    /\ disk' = (dump_filepath(env) :> Items(env)) @@ disk
    /\ dumped_under' = (dump_filepath(env) :> Selection(args)) @@ dumped_under
    /\ UNCHANGED <<epc, args, env, out_dir_made, loaded_under>>
    /\ UNCHANGED otherThanEnv

\* the process ends
Exit ==
    /\ epc = "running"
    /\ epc' = "exited"
    /\ UNCHANGED <<args, env, disk, out_dir_made, dumped_under, loaded_under>>
    /\ UNCHANGED otherThanEnv

(***************************************************************************)
(* Environment.board_models, lines 174-192, with the parses it makes.  A   *)
(* parser state is the BoardModels object: self, its key order, self.cpus, *)
(* and the exception raised.                                               *)
(***************************************************************************)
ParserState(self, order, cp, err) ==
    [self |-> self, order |-> order, cpus |-> cp, err |-> err]

\* BoardModels.__init__, lines 346-348
NewBoardModels == ParserState(EmptyDict, <<>>, EmptyDict, "none")

\* ArduinoData.parse, lines 310-317: the lines of one file in turn, up to
\* the first exception
RECURSIVE ParseLines(_, _)
ParseLines(st, lines) ==
    IF lines = <<>> \/ st.err # "none" THEN st
    ELSE LET r == parse_line(st.self, st.cpus, Head(lines))
         IN  ParseLines(ParserState(r.self, KeyOrder(st.order, r.self),
                                    r.cpus, r.err),
                        Tail(lines))

\* BoardModels.parse, lines 350-365: the states one call can end in, one
\* for each iteration order of the plain dicts of self.cpus
ParseOutcomes(st, lines, arch) ==
    LET r == ParseLines(st, lines)
    IN  IF r.err # "none" THEN {r}
        ELSE {LET q == PostPass(r.self, r.order, r.cpus, modellist, cpuorder, arch)
              IN  ParserState(q.self, q.order, r.cpus, q.err) :
                modellist \in Orders(DOMAIN r.cpus.d),
                cpuorder \in Orders(CpuNames(r.cpus))}

\* the lines a board description file is made of
BoardLines ==
    {"a.name=N", "menu.cpu.a.v=V", "b.name=M", "b.arch=x", "a"}

RECURSIVE LinesUpTo(_)
LinesUpTo(n) ==
    IF n = 0 THEN {<<>>}
    ELSE LET P == LinesUpTo(n - 1)
         IN  P \cup {Append(f, l) : f \in P, l \in BoardLines}

\* lines 181-190: the files of a 1.5 distribution and of an older one
Files15 ==
    {<<[arch |-> "sam", lines |-> f], [arch |-> "avr", lines |-> g]>> :
        f \in LinesUpTo(MaxFileLines), g \in LinesUpTo(MaxFileLines)}
Files10 ==
    {<<[arch |-> "avr", lines |-> f]>> : f \in LinesUpTo(MaxFileLines)}

BmIdle ==
    /\ bm_pc = "idle"
    /\ bm_idx = 0
    /\ bm_line = 0
    /\ bm_files = <<>>
    /\ bm_stored = FALSE
    /\ bm_self = EmptyDict
    /\ bm_order = <<>>
    /\ bm_cpus = EmptyDict
    /\ bm_calls = <<>>

\* one record of bm_calls
Call(err, ret) == [err |-> err, ret |-> ret]

\* board_models(), lines 175-179: the stored object is returned, or a new
\* one is stored and the parses begin
BoardModelsBegin ==
    /\ bm_pc = "idle"
    /\ Len(bm_calls) < MaxCalls
    /\ IF bm_stored
       THEN /\ bm_calls' = Append(bm_calls, Call("none", bm_self))
            /\ UNCHANGED <<bm_pc, bm_idx, bm_line, bm_stored, bm_self,
                           bm_order, bm_cpus>>
       ELSE /\ bm_stored' = TRUE
            /\ bm_self' = NewBoardModels.self
            /\ bm_order' = NewBoardModels.order
            /\ bm_cpus' = NewBoardModels.cpus
            /\ bm_pc' = "reading"
            /\ bm_idx' = 1
            /\ bm_line' = 1
            /\ UNCHANGED bm_calls
    /\ UNCHANGED bm_files
    /\ UNCHANGED otherThanBm

\* ArduinoData.parse, lines 310-317: the next line of the file being parsed
BoardModelsReadLine ==
    /\ bm_pc = "reading"
    /\ bm_line <= Len(bm_files[bm_idx].lines)
    /\ LET r == parse_line(bm_self, bm_cpus, bm_files[bm_idx].lines[bm_line])
       IN  /\ bm_self' = r.self
           /\ bm_order' = KeyOrder(bm_order, r.self)
           /\ bm_cpus' = r.cpus
           /\ IF r.err = "none"
              THEN /\ bm_line' = bm_line + 1
                   /\ UNCHANGED <<bm_pc, bm_calls>>
              ELSE /\ bm_calls' = Append(bm_calls, Call(r.err, EmptyDict))
                   /\ bm_pc' = "idle"
                   /\ UNCHANGED bm_line
    /\ UNCHANGED <<bm_idx, bm_files, bm_stored>>
    /\ UNCHANGED otherThanBm

\* BoardModels.parse, lines 352-365, at the end of a file; then the next
\* file of lines 182-185, or the return of line 192
BoardModelsEndOfFile ==
    /\ bm_pc = "reading"
    /\ bm_line > Len(bm_files[bm_idx].lines)
    /\ \E modellist \in Orders(DOMAIN bm_cpus.d),
          cpuorder \in Orders(CpuNames(bm_cpus)) :
         LET r == PostPass(bm_self, bm_order, bm_cpus, modellist, cpuorder,
                           bm_files[bm_idx].arch)
         IN  /\ bm_self' = r.self
             /\ bm_order' = r.order
             /\ IF r.err # "none"
                THEN /\ bm_calls' = Append(bm_calls, Call(r.err, EmptyDict))
                     /\ bm_pc' = "idle"
                     /\ UNCHANGED <<bm_idx, bm_line>>
                ELSE IF bm_idx < Len(bm_files)
                THEN /\ bm_idx' = bm_idx + 1
                     /\ bm_line' = 1
                     /\ UNCHANGED <<bm_pc, bm_calls>>
                ELSE /\ bm_calls' = Append(bm_calls, Call("none", r.self))
                     /\ bm_pc' = "idle"
                     /\ UNCHANGED <<bm_idx, bm_line>>
    /\ UNCHANGED <<bm_files, bm_stored, bm_cpus>>
    /\ UNCHANGED otherThanBm

(***************************************************************************)
(* The specifications: one per component.                                  *)
(***************************************************************************)
Init == DepInit /\ ParseIdle /\ RvIdle /\ EnvIdle /\ BmIdle

Next == ScanSources \/ BeginRound \/ ScanLib \/ Finish

Spec == Init /\ [][Next]_vars

\* the interpreter runs the loop on: a step that can be taken is taken
FairSpec == Spec /\ WF_vars(Next)

InitParse == DepInit /\ ParseIdle /\ RvIdle /\ EnvIdle /\ BmIdle

NextParse == ReadLine \/ EndOfFile

SpecParse == InitParse /\ [][NextParse]_vars

InitVars ==
    /\ DepInit /\ ParseIdle /\ EnvIdle /\ BmIdle
    /\ rv_pc = "call"
    /\ rv_value \in StringsUpTo(MaxLen)
    /\ rv_kwargs \in Mappings
    /\ rv_out = ""
    /\ rv_err = "none"

NextVars == ReplaceVarsReturns \/ ReplaceVarsRaises

SpecVars == InitVars /\ [][NextVars]_vars

InitEnv ==
    /\ DepInit /\ ParseIdle /\ RvIdle /\ BmIdle
    /\ epc = "exited"
    /\ args = [board_model |-> NoArg, arduino_dist |-> NoArg]
    /\ env = <<>>
    /\ disk = <<>>
    /\ out_dir_made \in BOOLEAN
    /\ dumped_under = <<>>
    /\ loaded_under = NoSelection

NextEnv == NewProcess \/ Load \/ ProcessArgs \/ Dump \/ Exit

SpecEnv == InitEnv /\ [][NextEnv]_vars

InitBoards ==
    /\ DepInit /\ ParseIdle /\ RvIdle /\ EnvIdle
    /\ bm_pc = "idle"
    /\ bm_idx = 0
    /\ bm_line = 0
    /\ bm_files \in Files15 \cup Files10
    /\ bm_stored = FALSE
    /\ bm_self = EmptyDict
    /\ bm_order = <<>>
    /\ bm_cpus = EmptyDict
    /\ bm_calls = <<>>

NextBoards == BoardModelsBegin \/ BoardModelsReadLine \/ BoardModelsEndOfFile

SpecBoards == InitBoards /\ [][NextBoards]_vars

(***************************************************************************)
(* The dependency relation the scans reported, and what it reaches.        *)
(***************************************************************************)
RECURSIVE Closure(_)
Closure(S) ==
    LET T == S \cup UNION {observed[x] : x \in S}
    IN  IF T = S THEN S ELSE Closure(T)

ReachableFrom(d) == Closure(observed[d])

Acyclic == \A l \in Libs : l \notin ReachableFrom(l)

NoDuplicates(s) == \A i, j \in DOMAIN s : s[i] = s[j] => i = j

Referrers(l) == {d \in {SrcDir} \cup Range(used_libs) : l \in observed[d]}

\* C1: when the scan completes on an acyclic dependency graph, a library B
\* that library A's scan reported (B not depending on A) comes after A in
\* the final used_libs.
C1_PairwiseOrder ==
    (pc = "done" /\ Acyclic) =>
        \A a, b \in Range(e_used_libs) :
            (b \in observed[a] /\ a \notin observed[b]) =>
                IndexOf(e_used_libs, b) > IndexOf(e_used_libs, a)

\* C2: the while loop of scan_dependencies eventually exits with
\* scanned_libs equal to the set of used_libs, unless a dependency-listing
\* call fails, whatever the dependency relation (cycles included) and the
\* pick order.
C2_LoopExits ==
    <>(pc = "aborted" \/ (pc = "done" /\ scanned_libs = Range(used_libs)))

\* the loop has exited on a dependency relation with a cycle of length >= 2
C2_Witness ==
    /\ pc = "done"
    /\ \E a, b \in Range(used_libs) :
         a # b /\ b \in observed[a] /\ a \in observed[b]

\* C3: used_libs never holds a library twice, and when the scan completes
\* its elements are exactly the libraries reachable from the project
\* sources through the reported dependency relation.
C3_ClosedNoDuplicates ==
    /\ NoDuplicates(used_libs)
    /\ pc = "done" =>
         /\ e_used_libs = used_libs
         /\ Range(e_used_libs) = ReachableFrom(SrcDir)

\* the scan completed after a library already in used_libs was reported
\* again (a move to the tail) and a new one was appended
C3_Witness ==
    /\ pc = "done"
    /\ \E l \in Range(used_libs) : l \notin observed[SrcDir]
    /\ \E l \in Range(used_libs) : Cardinality(Referrers(l)) >= 2

\* C4: when every library of the closure has exactly one referrer (the
\* project sources or one other library), every library comes after the
\* library that references it in the final used_libs.
C4_SingleReferrerOrder ==
    (pc = "done" /\ \A l \in Range(e_used_libs) : Cardinality(Referrers(l)) = 1) =>
        \A l \in Range(e_used_libs) : \A r \in Referrers(l) :
            r # SrcDir => IndexOf(e_used_libs, r) < IndexOf(e_used_libs, l)

\* project -> a -> b with no other reference, scan completed
C4_Witness ==
    /\ pc = "done"
    /\ \A l \in Range(e_used_libs) : Cardinality(Referrers(l)) = 1
    /\ \E a, b \in Range(e_used_libs) :
         Referrers(a) = {SrcDir} /\ Referrers(b) = {a}

\* C9: a dependency-listing call that exits non-zero is the last call made,
\* no directory is scanned twice, the Abort carries the exit code, and
\* neither e['used_libs'] nor the library include flags are written.
C9_ScanFailureAborts ==
    /\ \A i, j \in DOMAIN make_calls :
         make_calls[i].dir = make_calls[j].dir => i = j
    /\ \A i \in DOMAIN make_calls :
         make_calls[i].ret # 0 =>
            /\ i = Len(make_calls)
            /\ pc = "aborted"
            /\ abort = make_calls[i].ret
            /\ make_calls[i].dir \notin scanned_libs
            /\ make_calls[i].dir \notin Range(e_deps)
            /\ e_used_libs = Unset
            /\ e_cflags = <<>>

\* the listing of a library (not of the project sources) failed
C9_Witness ==
    /\ pc = "aborted"
    /\ Len(make_calls) >= 2
    /\ make_calls[Len(make_calls)].ret # 0

(***************************************************************************)
(* What a line of a description file says.                                 *)
(***************************************************************************)
HasAssignment(raw) ==
    /\ Strip(raw) # ""
    /\ ~StartsWith(Strip(raw), "#")
    /\ Find(Strip(raw), "=") # 0
KeyOf(raw) == Split(SplitOnce(Strip(raw), "=")[1], ".")
ValOf(raw) == SplitOnce(Strip(raw), "=")[2]
IsProperPrefix(p, q) == Len(p) < Len(q) /\ SubSeq(q, 1, Len(p)) = p

\* v holds the str x under the keys of path
HoldsStr(v, path, x) ==
    /\ Has(v, path)
    /\ IsStr(At(v, path))
    /\ At(v, path).s = x

\* the two values are the same str, or the same dict
Same(v, w) == IsStr(v) = IsStr(w) /\ v = w

\* C5: a file whose first line sets the key path a to the scalar X and
\* whose second line sets a key below a (a.b, not a.name itself) to Y
\* leaves a tree whose node at a has name X and holds Y at the later key.
C5_PromotionOnConflict ==
    ( /\ ppc \in {"reading", "failed"}
      /\ Len(file) = 2
      /\ HasAssignment(file[1]) /\ HasAssignment(file[2])
      /\ KeyOf(file[1])[1] # "menu"
      /\ IsProperPrefix(KeyOf(file[1]), KeyOf(file[2]))
      /\ KeyOf(file[2]) # Append(KeyOf(file[1]), "name") )
    => /\ perr = "none"
       /\ HoldsStr(boards, Append(KeyOf(file[1]), "name"), ValOf(file[1]))
       /\ HoldsStr(boards, KeyOf(file[2]), ValOf(file[2]))

\* when the lines were read every top level entry was a dict, every base
\* board named by a recorded variant had a str name, and every variant has
\* a str name
VariantsWellFormed ==
    /\ \A k \in DOMAIN base_boards.d : IsDict(base_boards.d[k])
    /\ \A model \in DOMAIN cpus.d :
        /\ Has(base_boards, <<model, "name">>)
        /\ IsStr(At(base_boards, <<model, "name">>))
        /\ \A cpu \in DOMAIN cpus.d[model].d :
              /\ Has(cpus, <<model, cpu, "name">>)
              /\ IsStr(At(cpus, <<model, cpu, "name">>))

\* C6: after BoardModels.parse, every recorded (board, variant) has a top
\* level entry <board>_<variant> named "<base name> w/ <variant name>" that
\* holds the variant's value for every key the variant sets and the base
\* board's value for every other base key, and <board> itself is gone.
C6_VariantExpansion ==
    (ppc \in {"parsed", "expand_failed"} /\ VariantsWellFormed) =>
        /\ ppc = "parsed"
        /\ \A model \in DOMAIN cpus.d : \A cpu \in DOMAIN cpus.d[model].d :
              LET key == model \o "_" \o cpu
                  variant == cpus.d[model].d[cpu]
                  base == base_boards.d[model]
              IN  /\ model \notin DOMAIN boards.d
                  /\ key \in DOMAIN boards.d
                  /\ IsDict(boards.d[key])
                  /\ HoldsStr(boards, <<key, "name">>,
                              base.d["name"].s \o " w/ " \o variant.d["name"].s)
                  /\ \A k \in DOMAIN variant.d \ {"name"} :
                        /\ k \in DOMAIN boards.d[key].d
                        /\ Same(boards.d[key].d[k], variant.d[k])
                  /\ \A k \in DOMAIN base.d \ (DOMAIN variant.d \cup {"name"}) :
                        /\ k \in DOMAIN boards.d[key].d
                        /\ Same(boards.d[key].d[k], base.d[k])

(***************************************************************************)
(* Placeholders of a string and what they refer to.                        *)
(***************************************************************************)
\* the texts between the braces of the placeholders of s, from position i
RECURSIVE Groups(_, _)
Groups(s, i) ==
    IF i > Len(s) THEN {}
    ELSE LET j == MatchEnd(s, i)
         IN  IF j = 0 THEN Groups(s, i + 1)
             ELSE {SubSeq(s, i + 1, j - 1)} \cup Groups(s, j + 1)
Placeholders(s) == Groups(s, 1)

\* the dotted path leads through dicts of the mapping to a value
Resolves(group, kwargs) == Has(kwargs, Split(group, "."))

\* a brace of s, from position i, that is part of no placeholder
RECURSIVE StrayBrace(_, _)
StrayBrace(s, i) ==
    IF i > Len(s) THEN FALSE
    ELSE LET j == MatchEnd(s, i)
         IN  IF j = 0 THEN IsBrace(CharAt(s, i)) \/ StrayBrace(s, i + 1)
             ELSE StrayBrace(s, j + 1)

\* the paths of the values of a mapping, and those of its strings
RECURSIVE Paths(_)
Paths(v) ==
    IF IsStr(v) THEN {<<>>}
    ELSE {<<>>} \cup UNION {{<<k>> \o q : q \in Paths(v.d[k])} : k \in DOMAIN v.d}
StrPaths(kwargs) == {q \in Paths(kwargs) : IsStr(At(kwargs, q))}

\* the strings the string at path q refers to by a placeholder
RefsOf(kwargs, q) ==
    {Split(g, ".") : g \in Placeholders(At(kwargs, q).s)} \cap StrPaths(kwargs)

RECURSIVE RefClosure(_, _)
RefClosure(kwargs, S) ==
    LET T == S \cup UNION {RefsOf(kwargs, q) : q \in S}
    IN  IF T = S THEN S ELSE RefClosure(kwargs, T)

AcyclicRefs(kwargs) ==
    \A q \in StrPaths(kwargs) : q \notin RefClosure(kwargs, RefsOf(kwargs, q))

\* C7: when no placeholder of the value resolves in the mapping,
\* replace_vars returns, without error, the value unchanged.
C7_UnresolvedKept ==
    (rv_pc # "call" /\ \A g \in Placeholders(rv_value) : ~Resolves(g, rv_kwargs))
    => (rv_pc = "returned" /\ rv_out = rv_value)

\* C8 as claimed: on a mapping with acyclic references replace_vars ends
\* without exhausting the recursion limit, and what it returns holds no
\* placeholder that resolves in the mapping.
C8_MultiHop ==
    (rv_pc # "call" /\ AcyclicRefs(rv_kwargs)) =>
        /\ rv_err # "RuntimeError"
        /\ rv_pc = "returned" =>
              \A g \in Placeholders(rv_out) : ~Resolves(g, rv_kwargs)

\* braces occur in the value and in the strings of the mapping only as
\* parts of placeholders
BracesPaired ==
    /\ ~StrayBrace(rv_value, 1)
    /\ \A q \in StrPaths(rv_kwargs) : ~StrayBrace(At(rv_kwargs, q).s, 1)

\* C8 amended: the same, for a value and mapping strings whose braces all
\* belong to placeholders.
C8_MultiHopPaired ==
    (rv_pc # "call" /\ AcyclicRefs(rv_kwargs) /\ BracesPaired) =>
        /\ rv_err # "RuntimeError"
        /\ rv_pc = "returned" =>
              \A g \in Placeholders(rv_out) : ~Resolves(g, rv_kwargs)

\* a placeholder was replaced through two hops
C8_Witness ==
    /\ rv_pc = "returned"
    /\ AcyclicRefs(rv_kwargs) /\ BracesPaired
    /\ \E g \in Placeholders(rv_value) :
         /\ Split(g, ".") \in StrPaths(rv_kwargs)
         /\ \E h \in Placeholders(At(rv_kwargs, Split(g, ".")).s) :
               Split(h, ".") \in StrPaths(rv_kwargs)
    /\ rv_out # rv_value

\* C13: one step of the resolver is a stable move-to-tail.  When library L
\* is processed with reported dependencies D, used_libs becomes its entries
\* outside D in their order, then its entries in D in their order, then the
\* members of D that were not in it; L is not moved, every member of D comes
\* after L, and L enters scanned_libs, where it was not before.
C13_StableMoveToTail ==
    [][(pc = "for" /\ pc' # "aborted" /\ Len(make_calls') > Len(make_calls)) =>
         LET L == make_calls'[Len(make_calls')].dir
             D == observed'[L]
             n == Len(used_libs)
             Stays(x) == x \notin D
             Moves(x) == x \in D
         IN  /\ L \in Range(used_libs)
             /\ L \notin D
             /\ L \notin scanned_libs
             /\ scanned_libs' = scanned_libs \cup {L}
             /\ Len(used_libs') = n + Cardinality(D \ Range(used_libs))
             /\ SubSeq(used_libs', 1, n) =
                    SelectSeq(used_libs, Stays) \o SelectSeq(used_libs, Moves)
             /\ {used_libs'[j] : j \in (n + 1)..Len(used_libs')} =
                    D \ Range(used_libs)
             /\ \A d \in D : IndexOf(used_libs', L) < IndexOf(used_libs', d)
      ]_vars

\* one library has been processed: one of its dependencies was in the list
\* already (moved) and one was not (appended)
C13_Witness ==
    /\ pc \in {"for", "while"}
    /\ Cardinality(scanned_libs) = 1
    /\ \E L \in scanned_libs :
         /\ Cardinality(observed[L] \cap observed[SrcDir]) >= 1
         /\ observed[L] \ observed[SrcDir] # {}
         /\ \E d \in observed[L] \cap observed[SrcDir] :
               IndexOf(used_libs, L) < IndexOf(used_libs, d)

\* C12: attribute-style and key-style reads see the same store.  For every
\* key stored by item assignment the two reads give the same value, and a
\* key-style read of a key that is not stored gives what the attribute of
\* that name gives, failing only when there is no such attribute.
C12_ReadsAgree ==
    /\ \A k \in DOMAIN env : GetAttr(env, k) = GetItem(env, k)
    /\ \A k \in ReadNames \ DOMAIN env :
          IF GetAttr(env, k).err = "none"
          THEN GetItem(env, k) = GetAttr(env, k)
          ELSE GetItem(env, k).err = "KeyError"

\* C11: a parse error leaves no usable partial tree.  After a call of
\* board_models() that stopped at a line without "=", no later call on the
\* same Environment returns a board set.
C11_NoPartialTree ==
    \A i, j \in DOMAIN bm_calls :
        (i < j /\ bm_calls[i].err = "ValueError") => bm_calls[j].err # "none"

\* what a description file gives when it is the only one parsed
Alone(f) == ParseOutcomes(NewBoardModels, f.lines, f.arch)

\* the board names and the models with variants a file mentions
NamesOf(f) ==
    UNION {DOMAIN o.self.d \cup DOMAIN o.cpus.d : o \in Alone(f)}

\* the two files parse without error on their own and share no name
Independent(f, g) ==
    /\ \A o \in Alone(f) \cup Alone(g) : o.err = "none"
    /\ NamesOf(f) \cap NamesOf(g) = {}

\* C14: parses in sequence share no parser state.  When board_models() has
\* parsed two files that are well-formed on their own and name different
\* boards, the call returned and the board set is the union of what each
\* file gives alone (so each entry has the arch of its own file's call).
C14_SequentialParses ==
    (Len(bm_calls) >= 1 /\ bm_pc = "idle" /\ Len(bm_files) = 2
        /\ Independent(bm_files[1], bm_files[2])) =>
       /\ bm_calls[1].err = "none"
       /\ \E o1 \in Alone(bm_files[1]), o2 \in Alone(bm_files[2]) :
             bm_self = Dict(o1.self.d @@ o2.self.d)

\* C10: the items load restores in a process were dumped under the
\* selection (board, toolchain path) of that process.
C10_SnapshotsSeparated ==
    loaded_under \in {NoSelection, Selection(args)}

=============================================================================
